---------------------------- MODULE Spec2Model ----------------------------
(***************************************************************************)
(* Model of src/mcp-server.py: the Request Gateway (make_fmp_request) and  *)
(* the two tool endpoints get_stock_quote and get_company_profile.         *)
(*                                                                         *)
(* Text is a sequence of one-character strings, so that upper(), strip(),  *)
(* slicing, substring tests and number formatting are computed character   *)
(* by character.  A JSON value is a record tagged by its field t.  A float *)
(* is held in hundredths (15025 is 150.25): the model covers the floats    *)
(* that have at most two decimals.                                         *)
(***************************************************************************)
EXTENDS Integers, Sequences, FiniteSets, TLC

VARIABLES
    API_KEY,      \* the module global read from the environment (line 15)
    calls,        \* number of requests.get calls issued so far
    gateway_calls, \* number of make_fmp_request invocations so far
    invocations,  \* number of tool invocations so far
    tool,         \* the tool of the last invocation: "none", "quote", "profile"
    symbol_in,    \* the symbol argument as the caller passed it
    symbol,       \* the local symbol after line 46 / 87
    endpoint,     \* the endpoint handed to make_fmp_request
    response,     \* what the network did with the last request, if one was sent
    data,         \* what make_fmp_request gave back: a value or an exception
    result        \* what the tool gave back: a string or an exception

vars == <<API_KEY, calls, gateway_calls, invocations, tool, symbol_in, symbol,
          endpoint, response, data, result>>

----------------------------------------------------------------------------
(* Bounds of the model *)

MaxInvocations == 3
MaxSymLen == 3

----------------------------------------------------------------------------
(* Text *)

Chars(s) == [i \in 1..Len(s) |-> SubSeq(s, i, i)]

Lower == Chars("abcdefghijklmnopqrstuvwxyz")
Upper == Chars("ABCDEFGHIJKLMNOPQRSTUVWXYZ")
Whitespace == {" ", "\t", "\n", "\r", "\f"}

Min(S) == CHOOSE i \in S : \A j \in S : i <= j
Max(S) == CHOOSE i \in S : \A j \in S : i >= j

\* str.upper() on one character
UpperChar(c) ==
    IF \E i \in 1..Len(Lower) : Lower[i] = c
    THEN Upper[CHOOSE i \in 1..Len(Lower) : Lower[i] = c]
    ELSE c

\* str.upper()
PyUpper(s) == [i \in 1..Len(s) |-> UpperChar(s[i])]

\* str.strip(): drop the leading and trailing whitespace
PyStrip(s) ==
    LET keep == {i \in 1..Len(s) : s[i] \notin Whitespace}
    IN  IF keep = {} THEN <<>> ELSE SubSeq(s, Min(keep), Max(keep))

\* s[:n]
Slice(s, n) == SubSeq(s, 1, IF Len(s) < n THEN Len(s) ELSE n)

\* pat in s, for two strings
IsSubstring(pat, s) ==
    \E i \in 1..(Len(s) - Len(pat) + 1) : SubSeq(s, i, i + Len(pat) - 1) = pat

Digit(d) == SubSeq("0123456789", d + 1, d + 1)

RECURSIVE NatStr(_)
NatStr(n) == IF n < 10 THEN <<Digit(n)>> ELSE NatStr(n \div 10) \o <<Digit(n % 10)>>

Abs(n) == IF n < 0 THEN 0 - n ELSE n
Sign(n) == IF n < 0 THEN <<"-">> ELSE <<>>

\* str(n) of an int
IntStr(n) == Sign(n) \o NatStr(Abs(n))

Pad2(n) == <<Digit(n \div 10), Digit(n % 10)>>
Pad3(n) == <<Digit(n \div 100), Digit((n \div 10) % 10), Digit(n % 10)>>

\* format(n, ",") of a natural number: groups of three digits
RECURSIVE NatGrouped(_)
NatGrouped(n) ==
    IF n < 1000 THEN NatStr(n)
    ELSE NatGrouped(n \div 1000) \o <<",">> \o Pad3(n % 1000)

\* the digits repr() prints after the point of a float held in hundredths
FracRepr(h) ==
    IF h % 10 = 0 THEN <<Digit((h \div 10) % 10)>> ELSE Pad2(h % 100)

\* str(x) of a float held in hundredths
FloatStr(h) == Sign(h) \o NatStr(Abs(h) \div 100) \o <<".">> \o FracRepr(Abs(h))

\* format(x, ".2f") of a float held in hundredths
Fixed2(h) == Sign(h) \o NatStr(Abs(h) \div 100) \o <<".">> \o Pad2(Abs(h) % 100)

----------------------------------------------------------------------------
(* JSON values, as json.loads builds them *)

JNull == [t |-> "null"]
JBool(b) == [t |-> "bool", b |-> b]
JInt(n) == [t |-> "int", n |-> n]
JFloat(h) == [t |-> "float", n |-> h]
JStr(s) == [t |-> "str", s |-> s]
JList(items) == [t |-> "list", items |-> items]
JDict(fields) == [t |-> "dict", fields |-> fields]

EmptyDict == JDict(<<>>)
ErrorValue(msg) == JDict([k \in {"error"} |-> JStr(msg)])

BoolInt(v) == IF v.b THEN 1 ELSE 0

\* bool(v)
Truthy(v) ==
    CASE v.t = "null" -> FALSE
      [] v.t = "bool" -> v.b
      [] v.t = "int" -> v.n # 0
      [] v.t = "float" -> v.n # 0
      [] v.t = "str" -> Len(v.s) > 0
      [] v.t = "list" -> Len(v.items) > 0
      [] v.t = "dict" -> DOMAIN v.fields # {}

\* str(v) of a scalar
PyStr(v) ==
    CASE v.t = "null" -> Chars("None")
      [] v.t = "bool" -> IF v.b THEN Chars("True") ELSE Chars("False")
      [] v.t = "int" -> IntStr(v.n)
      [] v.t = "float" -> FloatStr(v.n)
      [] v.t = "str" -> v.s

----------------------------------------------------------------------------
(* Outcomes of an expression: a text or an exception *)

Text(s) == [ok |-> TRUE, s |-> s, exc |-> "none"]
Exc(e) == [ok |-> FALSE, s |-> <<>>, exc |-> e]
Lit(s) == Text(Chars(s))

\* f"{v}"
FormatPlain(v) == Text(PyStr(v))

\* f"{v:.2f}"
Format2f(v) ==
    CASE v.t = "int" -> Text(IntStr(v.n) \o Chars(".00"))
      [] v.t = "bool" -> Text(IntStr(BoolInt(v)) \o Chars(".00"))
      [] v.t = "float" -> Text(Fixed2(v.n))
      [] v.t = "str" -> Exc("ValueError")
      [] OTHER -> Exc("TypeError")

\* f"{v:,}"
FormatGrouped(v) ==
    CASE v.t = "int" -> Text(Sign(v.n) \o NatGrouped(Abs(v.n)))
      [] v.t = "bool" -> Text(IntStr(BoolInt(v)))
      [] v.t = "float" ->
            Text(Sign(v.n) \o NatGrouped(Abs(v.n) \div 100) \o <<".">> \o FracRepr(Abs(v.n)))
      [] v.t = "str" -> Exc("ValueError")
      [] OTHER -> Exc("TypeError")

RECURSIVE Concat(_)
Concat(parts) ==
    IF parts = <<>> THEN <<>> ELSE Head(parts).s \o Concat(Tail(parts))

\* An f-string: its parts are evaluated left to right, the first exception wins
FString(parts) ==
    LET bad == {i \in 1..Len(parts) : ~parts[i].ok}
    IN  IF bad = {} THEN Text(Concat(parts)) ELSE Exc(parts[Min(bad)].exc)

----------------------------------------------------------------------------
(* What the network can do with one GET (requests.get, raise_for_status,    *)
(* response.json)                                                           *)

\* requests.get raises: a connection failure or the 10 second timeout
TransportFailure(kind, msg) ==
    [kind |-> kind, msg |-> Chars(msg), caught |-> TRUE, body |-> JNull]
\* a non-2xx status: raise_for_status raises HTTPError, whose text names the url
HttpFailure(msg) ==
    [kind |-> "HTTPError", msg |-> Chars(msg), caught |-> TRUE, body |-> JNull]
\* a 2xx status whose body is not JSON: response.json() raises
\* requests.exceptions.JSONDecodeError, a RequestException, from requests 2.27
\* on (caught), and a plain ValueError before that (not caught)
Undecodable(caught) ==
    [kind |-> "JSONDecodeError", msg |-> Chars("Expecting value: line 1 column 1 (char 0)"),
     caught |-> caught, body |-> JNull]
\* a 2xx status whose body decodes to the JSON value body
Success(body) ==
    [kind |-> "ok", msg |-> <<>>, caught |-> TRUE, body |-> body]
NoResponse ==
    [kind |-> "none", msg |-> <<>>, caught |-> TRUE, body |-> JNull]

BASE_URL == Chars("https://financialmodelingprep.com/api/v3")

\* the url requests prepares from url and params (lines 24-25, 28)
RequestUrl(ep) == BASE_URL \o <<"/">> \o ep \o Chars("?apikey=") \o PyStr(API_KEY)

\* str(e) of the exception raised for the outcome net
ExcStr(net, ep) ==
    IF net.kind = "HTTPError"
    THEN net.msg \o Chars(" for url: ") \o RequestUrl(ep)
    ELSE net.msg

Return(v, n) == [kind |-> "return", val |-> v, exc |-> "none", ncalls |-> n]
Raise(e, n) == [kind |-> "raise", val |-> JNull, exc |-> e, ncalls |-> n]
NoData == [kind |-> "none", val |-> JNull, exc |-> "none", ncalls |-> 0]

\* make_fmp_request without its credential check
make_fmp_request_unchecked(ep, net) ==
    IF net.kind = "ok" THEN Return(net.body, 1)
    ELSE IF net.caught
         THEN Return(ErrorValue(Chars("API request failed: ") \o ExcStr(net, ep)), 1)
         ELSE Raise("ValueError", 1)

\* make_fmp_request retrying a failed request once
make_fmp_request_retry(ep, net) ==
    IF ~Truthy(API_KEY)
    THEN Return(ErrorValue(Chars("FMP_API_KEY environment variable not set")), 0)
    ELSE IF net.kind = "ok" THEN Return(net.body, 1)
    ELSE IF net.caught
         THEN Return(ErrorValue(Chars("API request failed: ") \o ExcStr(net, ep)), 2)
         ELSE Raise("ValueError", 2)

\* make_fmp_request(endpoint): what it gives back and how many GETs it issued,
\* when the network answers its GET with net
make_fmp_request(ep, net) ==
    IF ~Truthy(API_KEY)
    THEN Return(ErrorValue(Chars("FMP_API_KEY environment variable not set")), 0)
    ELSE IF net.kind = "ok" THEN Return(net.body, 1)
    ELSE IF net.caught
         THEN Return(ErrorValue(Chars("API request failed: ") \o ExcStr(net, ep)), 1)
         ELSE Raise("ValueError", 1)

----------------------------------------------------------------------------
(* The steps the two tools share *)

\* a normalization that swaps the case (swapcase) where the code uppercases
NormalizeSwapcase(s) ==
    PyStrip([i \in 1..Len(s) |->
        IF \E j \in 1..Len(Upper) : Upper[j] = s[i]
        THEN Lower[CHOOSE j \in 1..Len(Upper) : Upper[j] = s[i]]
        ELSE UpperChar(s[i])])

\* symbol.upper().strip()  (lines 46, 87)
Normalize(s) == PyStrip(PyUpper(s))

\* "error" in data  (lines 52, 93): "yes", "no" or the exception
ContainsError(d) ==
    CASE d.t = "dict" -> IF "error" \in DOMAIN d.fields THEN "yes" ELSE "no"
      [] d.t = "list" ->
            IF \E i \in 1..Len(d.items) :
                    d.items[i].t = "str" /\ d.items[i].s = Chars("error")
            THEN "yes" ELSE "no"
      [] d.t = "str" -> IF IsSubstring(Chars("error"), d.s) THEN "yes" ELSE "no"
      [] OTHER -> "TypeError"

\* the error string without its "Error: " prefix
ErrorStringNoPrefix(d) ==
    IF d.t = "dict" THEN FString(<<FormatPlain(d.fields["error"])>>)
    ELSE Exc("TypeError")

\* f"Error: {data['error']}"  (lines 53, 94); a list or a string cannot be
\* indexed by 'error'
ErrorString(d) ==
    IF d.t = "dict" THEN FString(<<Lit("Error: "), FormatPlain(d.fields["error"])>>)
    ELSE Exc("TypeError")

\* data[0]  (lines 59, 100), for a data that is truthy and has no "error"
FirstOf(d) ==
    CASE d.t = "list" -> [ok |-> TRUE, v |-> d.items[1], exc |-> "none"]
      [] d.t = "str" -> [ok |-> TRUE, v |-> JStr(<<d.s[1]>>), exc |-> "none"]
      [] d.t = "dict" -> [ok |-> FALSE, v |-> JNull, exc |-> "KeyError"]

\* record.get(key, default)
Get(rec, key, default) ==
    IF key \in DOMAIN rec.fields THEN rec.fields[key] ELSE default

NA == JStr(Chars("N/A"))

----------------------------------------------------------------------------
(* get_stock_quote *)

\* "N/A" as the default of every field, the numeric ones included
QuoteDefaultAllText(key) == NA

\* the default of quote.get(key, default) on lines 62-70
QuoteDefault(key) == IF key \in {"name", "pe"} THEN NA ELSE JInt(0)

QuoteGet(quote, key) == Get(quote, key, QuoteDefault(key))

\* the not-found string of get_company_profile used in get_stock_quote
NoDataStringProfileText(sym) == FString(<<Lit("No profile found for symbol: "), Text(sym)>>)

\* f"No data found for symbol: {symbol}"  (line 56)
NoDataString(sym) == FString(<<Lit("No data found for symbol: "), Text(sym)>>)

\* the f-string of lines 62-71; quote.get fails on anything but a mapping
QuoteReport(sym, quote) ==
    IF quote.t # "dict" THEN Exc("AttributeError")
    ELSE FString(<<
        Lit("Stock Quote: "), FormatPlain(QuoteGet(quote, "name")),
        Lit(" ("), Text(sym), Lit(")\n\n"),
        Lit("Current Price: $"), Format2f(QuoteGet(quote, "price")), Lit("\n"),
        Lit("Change: $"), Format2f(QuoteGet(quote, "change")),
        Lit(" ("), Format2f(QuoteGet(quote, "changesPercentage")), Lit("%)\n"),
        Lit("Volume: "), FormatGrouped(QuoteGet(quote, "volume")), Lit("\n"),
        Lit("Market Cap: $"), FormatGrouped(QuoteGet(quote, "marketCap")), Lit("\n"),
        Lit("P/E Ratio: "), FormatPlain(QuoteGet(quote, "pe")), Lit("\n"),
        Lit("Previous Close: $"), Format2f(QuoteGet(quote, "previousClose")), Lit("\n"),
        Lit("Day Range: $"), Format2f(QuoteGet(quote, "dayLow")),
        Lit(" - $"), Format2f(QuoteGet(quote, "dayHigh")), Lit("\n")>>)

\* lines 51-73: what get_stock_quote gives back for the gateway's outcome d
QuoteResult(sym, d) ==
    IF d.kind = "raise" THEN Exc(d.exc)
    ELSE LET has == ContainsError(d.val)
         IN  CASE has = "TypeError" -> Exc("TypeError")
               [] has = "yes" -> ErrorString(d.val)
               [] OTHER ->
                    IF ~Truthy(d.val) THEN NoDataString(sym)
                    ELSE LET first == FirstOf(d.val)
                         IN  IF first.ok THEN QuoteReport(sym, first.v)
                             ELSE Exc(first.exc)

----------------------------------------------------------------------------
(* get_company_profile *)

DescLimit == 500

NoDescription == JStr(Chars("No description available"))

\* f"No profile found for symbol: {symbol}"  (line 97)
NoProfileString(sym) == FString(<<Lit("No profile found for symbol: "), Text(sym)>>)

\* a description cut one character short of the limit
DescriptionCutShort(v) ==
    IF v.t = "str" THEN FString(<<Text(Slice(v.s, DescLimit - 1)), Lit("...")>>)
    ELSE Exc("TypeError")

\* f"{profile.get('description', 'No description available')[:500]}..." (line 114)
Description(v) ==
    IF v.t = "str" THEN FString(<<Text(Slice(v.s, DescLimit)), Lit("...")>>)
    ELSE Exc("TypeError")

\* the f-string of lines 103-120
ProfileReport(sym, profile) ==
    IF profile.t # "dict" THEN Exc("AttributeError")
    ELSE FString(<<
        Lit("Company Profile: "), FormatPlain(Get(profile, "companyName", NA)),
        Lit(" ("), Text(sym), Lit(")\n\n"),
        Lit("Industry: "), FormatPlain(Get(profile, "industry", NA)), Lit("\n"),
        Lit("Sector: "), FormatPlain(Get(profile, "sector", NA)), Lit("\n"),
        Lit("Country: "), FormatPlain(Get(profile, "country", NA)), Lit("\n"),
        Lit("Market Cap: $"), FormatGrouped(Get(profile, "mktCap", JInt(0))), Lit("\n"),
        Lit("Employees: "), FormatGrouped(Get(profile, "fullTimeEmployees", NA)), Lit("\n"),
        Lit("Website: "), FormatPlain(Get(profile, "website", NA)), Lit("\n"),
        Lit("CEO: "), FormatPlain(Get(profile, "ceo", NA)), Lit("\n\n"),
        Lit("Description:\n"),
        Description(Get(profile, "description", NoDescription)), Lit("\n\n"),
        Lit("Stock Info:\n"),
        Lit("Exchange: "), FormatPlain(Get(profile, "exchangeShortName", NA)), Lit("\n"),
        Lit("Current Price: $"), Format2f(Get(profile, "price", JInt(0))), Lit("\n"),
        Lit("Beta: "), FormatPlain(Get(profile, "beta", NA)), Lit("\n")>>)

\* lines 92-122: what get_company_profile gives back for the gateway's outcome d
ProfileResult(sym, d) ==
    IF d.kind = "raise" THEN Exc(d.exc)
    ELSE LET has == ContainsError(d.val)
         IN  CASE has = "TypeError" -> Exc("TypeError")
               [] has = "yes" -> ErrorString(d.val)
               [] OTHER ->
                    IF ~Truthy(d.val) THEN NoProfileString(sym)
                    ELSE LET first == FirstOf(d.val)
                         IN  IF first.ok THEN ProfileReport(sym, first.v)
                             ELSE Exc(first.exc)

----------------------------------------------------------------------------
(* The state machine: one action per tool invocation *)

NoResult == Exc("none")

\* os.getenv("FMP_API_KEY"): unset, set to the empty string, or set
Init ==
    /\ API_KEY \in {JNull, JStr(<<>>), JStr(Chars("k3y"))}
    /\ calls = 0
    /\ gateway_calls = 0
    /\ invocations = 0
    /\ tool = "none"
    /\ symbol_in = <<>>
    /\ symbol = <<>>
    /\ endpoint = <<>>
    /\ response = NoResponse
    /\ data = NoData
    /\ result = NoResult

\* get_stock_quote(s), the network answering the GET (if one is sent) with net
get_stock_quote(s, net) ==
    /\ invocations < MaxInvocations
    /\ LET sym == Normalize(s)
           ep == Chars("quote/") \o sym
           d == make_fmp_request(ep, net)
       IN  /\ symbol_in' = s
           /\ symbol' = sym
           /\ endpoint' = ep
           /\ data' = d
           /\ response' = IF d.ncalls > 0 THEN net ELSE NoResponse
           /\ calls' = calls + d.ncalls
           /\ result' = QuoteResult(sym, d)
    /\ gateway_calls' = gateway_calls + 1
    /\ invocations' = invocations + 1
    /\ tool' = "quote"
    /\ UNCHANGED API_KEY

\* get_company_profile(s), the network answering the GET (if one is sent) with net
get_company_profile(s, net) ==
    /\ invocations < MaxInvocations
    /\ LET sym == Normalize(s)
           ep == Chars("profile/") \o sym
           d == make_fmp_request(ep, net)
       IN  /\ symbol_in' = s
           /\ symbol' = sym
           /\ endpoint' = ep
           /\ data' = d
           /\ response' = IF d.ncalls > 0 THEN net ELSE NoResponse
           /\ calls' = calls + d.ncalls
           /\ result' = ProfileResult(sym, d)
    /\ gateway_calls' = gateway_calls + 1
    /\ invocations' = invocations + 1
    /\ tool' = "profile"
    /\ UNCHANGED API_KEY

----------------------------------------------------------------------------
(* Inputs: the symbols a caller passes and the answers of the network *)

Symbols == {Chars("aapl"), Chars("AAPL"), Chars(" Msft\n"), <<>>, Chars(" \t")}

Failures ==
    { TransportFailure("ConnectionError", "Connection refused"),
      TransportFailure("Timeout", "Read timed out. (read timeout=10)"),
      HttpFailure("404 Client Error: Not Found"),
      HttpFailure("401 Client Error: Unauthorized"),
      Undecodable(TRUE),
      Undecodable(FALSE) }

QuoteFields ==
    {"name", "price", "change", "changesPercentage", "volume", "marketCap",
     "pe", "previousClose", "dayLow", "dayHigh"}

\* a well-typed quote record (marketCap is kept below 2^31)
AppleQuote ==
    [k \in QuoteFields |->
        CASE k = "name" -> JStr(Chars("Apple Inc."))
          [] k = "price" -> JFloat(15025)
          [] k = "change" -> JFloat(-150)
          [] k = "changesPercentage" -> JFloat(-101)
          [] k = "volume" -> JInt(1000000)
          [] k = "marketCap" -> JInt(2000000000)
          [] k = "pe" -> JFloat(2850)
          [] k = "previousClose" -> JFloat(14875)
          [] k = "dayLow" -> JFloat(14900)
          [] k = "dayHigh" -> JInt(151)]

Restrict(f, S) == [k \in S |-> f[k]]

QuoteRecords == {JDict(Restrict(AppleQuote, S)) : S \in SUBSET QuoteFields}

ProfileFields ==
    {"companyName", "industry", "sector", "country", "mktCap", "fullTimeEmployees",
     "website", "ceo", "description", "exchangeShortName", "price", "beta"}

\* a description of n characters
DescText(n) ==
    LET base == Chars("Apple Inc. designs smartphones, computers and wearables. ")
    IN  [i \in 1..n |-> base[((i - 1) % Len(base)) + 1]]

DescLens == {0, 1, DescLimit - 1, DescLimit, DescLimit + 1, DescLimit + 100}

\* a well-typed profile record with a description of n characters
AppleProfile(n) ==
    [k \in ProfileFields |->
        CASE k = "companyName" -> JStr(Chars("Apple Inc."))
          [] k = "industry" -> JStr(Chars("Consumer Electronics"))
          [] k = "sector" -> JStr(Chars("Technology"))
          [] k = "country" -> JStr(Chars("US"))
          [] k = "mktCap" -> JInt(2000000000)
          [] k = "fullTimeEmployees" -> JInt(164000)
          [] k = "website" -> JStr(Chars("https://www.apple.com"))
          [] k = "ceo" -> JStr(Chars("Tim Cook"))
          [] k = "description" -> JStr(DescText(n))
          [] k = "exchangeShortName" -> JStr(Chars("NASDAQ"))
          [] k = "price" -> JFloat(15025)
          [] k = "beta" -> JFloat(129)]

ProfileRecords ==
    {JDict(Restrict(AppleProfile(n), S)) :
        n \in DescLens,
        S \in { ProfileFields,
                ProfileFields \ {"description"},
                ProfileFields \ {"fullTimeEmployees"},
                {"fullTimeEmployees", "description"},
                {"fullTimeEmployees"},
                {"description"},
                {} }}

\* the JSON bodies of the general specification: lists, mappings and other values
Bodies ==
    { JList(<<>>), EmptyDict,
      ErrorValue(Chars("boom")), ErrorValue(<<>>),
      JDict([k \in {"error"} |-> JInt(404)]),
      JDict([k \in {"Error Message"} |-> JStr(Chars("Invalid API KEY."))]),
      JList(<<JInt(1)>>), JList(<<JNull>>), JList(<<JStr(Chars("error"))>>),
      JList(<<JStr(Chars("AAPL"))>>),
      JStr(<<>>), JStr(Chars("AAPL")), JStr(Chars("server error")),
      JInt(5), JInt(0), JFloat(15025), JNull, JBool(TRUE),
      JList(<<JDict(AppleQuote)>>), JList(<<JDict(AppleQuote), JInt(7)>>),
      JList(<<EmptyDict>>),
      JList(<<JDict([k \in {"price"} |-> JStr(Chars("150.25"))])>>),
      JList(<<JDict([k \in {"price"} |-> JNull])>>),
      JList(<<JDict(AppleProfile(3))>>),
      JList(<<JDict(Restrict(AppleProfile(3), ProfileFields \ {"fullTimeEmployees"}))>>),
      JList(<<JDict([k \in {"fullTimeEmployees"} |-> JStr(Chars("164000"))])>>),
      JList(<<JDict([k \in {"fullTimeEmployees", "description"} |->
                  IF k = "description" THEN JNull ELSE JInt(164000)])>>) }

Outcomes == Failures \cup {Success(b) : b \in Bodies}

QuoteOutcomes ==
    {Success(JList(<<q>> \o rest)) : q \in QuoteRecords, rest \in {<<>>, <<JInt(7)>>}}

ProfileOutcomes == {Success(JList(<<p>>)) : p \in ProfileRecords}

Alphabet == {"a", "B", "1", " ", "\t"}

AllSymbols == UNION {[1..n -> Alphabet] : n \in 0..MaxSymLen}

NormOutcomes == {Success(JList(<<>>)), TransportFailure("Timeout", "timed out")}

----------------------------------------------------------------------------
(* Specifications *)

\* any symbol of Symbols, any answer of the network
Next ==
    \E s \in Symbols, net \in Outcomes :
        \/ get_stock_quote(s, net)
        \/ get_company_profile(s, net)

Spec == Init /\ [][Next]_vars

\* one get_stock_quote on a list whose first element is a quote record
NextQuote ==
    /\ invocations = 0
    /\ \E s \in {Chars("aapl"), Chars(" Msft\n")}, net \in QuoteOutcomes :
        get_stock_quote(s, net)

SpecQuote == Init /\ [][NextQuote]_vars

\* one get_company_profile on a list holding one profile record
NextProfile ==
    /\ invocations = 0
    /\ \E s \in Symbols, net \in ProfileOutcomes :
        get_company_profile(s, net)

SpecProfile == Init /\ [][NextProfile]_vars

\* one invocation on any symbol of at most MaxSymLen characters over Alphabet
NextNorm ==
    /\ invocations = 0
    /\ \E s \in AllSymbols, net \in NormOutcomes :
        \/ get_stock_quote(s, net)
        \/ get_company_profile(s, net)

SpecNorm == Init /\ [][NextNorm]_vars

----------------------------------------------------------------------------
(* Properties *)

HasPrefix(s, pre) == Len(s) >= Len(pre) /\ SubSeq(s, 1, Len(pre)) = pre

\* the places where pat occurs in s
Occurrences(pat, s) ==
    {i \in 1..(Len(s) - Len(pat) + 1) : SubSeq(s, i, i + Len(pat) - 1) = pat}

KeyUnset == ~Truthy(API_KEY)
Invoked == tool # "none"
GatewayReturned == Invoked /\ data.kind = "return"
GatewayGaveError ==
    /\ GatewayReturned
    /\ data.val.t = "dict"
    /\ "error" \in DOMAIN data.val.fields
    /\ data.val.fields["error"].t = "str"
GatewayGaveEmptyList ==
    GatewayReturned /\ data.val.t = "list" /\ Len(data.val.items) = 0
GatewayGaveRecord ==
    /\ GatewayReturned
    /\ data.val.t = "list"
    /\ Len(data.val.items) > 0
    /\ data.val.items[1].t = "dict"
FirstRecord == data.val.items[1].fields

\* C1: with the credential unset (None or empty), no GET is ever issued and
\* every tool invocation returns a string that contains "FMP_API_KEY".
UnsetKeyNoNetwork ==
    KeyUnset =>
        /\ calls = 0
        /\ response = NoResponse
        /\ Invoked => result.ok /\ IsSubstring(Chars("FMP_API_KEY"), result.s)

UnsetKeyWitness ==
    /\ KeyUnset
    /\ invocations >= 2
    /\ tool = "profile"
    /\ result.s = Chars("Error: FMP_API_KEY environment variable not set")

\* C2: make_fmp_request never raises: whatever the network does, it returns
\* the decoded body or an error value.
GatewayNeverRaises == Invoked => data.kind = "return"

\* C3: whatever JSON value the gateway returns on a successful GET, both tools
\* return a string.
ToolsReturnStringOnSuccess ==
    (Invoked /\ response.kind = "ok") => result.ok

\* C4: when the gateway returns {error: m}, both tools return exactly
\* "Error: " followed by m.
ErrorValueRendered ==
    GatewayGaveError =>
        /\ result.ok
        /\ result.s = Chars("Error: ") \o data.val.fields["error"].s

ErrorValueWitness ==
    /\ GatewayGaveError
    /\ tool = "quote"
    /\ response.kind = "HTTPError"
    /\ HasPrefix(result.s, Chars("Error: API request failed: 404 Client Error"))

\* C5: when the gateway returns an empty list, get_stock_quote returns exactly
\* "No data found for symbol: X" and get_company_profile exactly
\* "No profile found for symbol: X", X being the uppercased, trimmed symbol;
\* neither string starts with "Error: ".
EmptyListNotFound ==
    GatewayGaveEmptyList =>
        /\ symbol = PyStrip(PyUpper(symbol_in))
        /\ result.ok
        /\ tool = "quote" => result.s = Chars("No data found for symbol: ") \o symbol
        /\ tool = "profile" => result.s = Chars("No profile found for symbol: ") \o symbol
        /\ ~HasPrefix(result.s, Chars("Error: "))

EmptyListWitness ==
    /\ GatewayGaveEmptyList
    /\ tool = "quote"
    /\ symbol_in = Chars(" Msft\n")
    /\ result.s = Chars("No data found for symbol: MSFT")

\* the quote record with every absent field set to its literal default
QuoteFilled(rec) ==
    [k \in QuoteFields |->
        IF k \in DOMAIN rec THEN rec[k]
        ELSE IF k \in {"name", "pe"} THEN JStr(Chars("N/A")) ELSE JInt(0)]

\* C6: for a list whose first element is a quote record with any of its fields
\* absent, get_stock_quote returns the report of the record with each absent
\* field at its default (0, or "N/A" for name and pe), whatever follows the
\* first element.
QuoteDefaultsRendered ==
    (GatewayGaveRecord /\ tool = "quote" /\ DOMAIN FirstRecord \subseteq QuoteFields) =>
        /\ result.ok
        /\ result = QuoteReport(symbol, JDict(QuoteFilled(FirstRecord)))

QuoteDefaultsWitness ==
    /\ GatewayGaveRecord
    /\ tool = "quote"
    /\ DOMAIN FirstRecord = {"volume"}
    /\ Len(data.val.items) = 2
    /\ result.s = Chars("Stock Quote: N/A (AAPL)\n\nCurrent Price: $0.00\n")
                  \o Chars("Change: $0.00 (0.00%)\nVolume: 1,000,000\nMarket Cap: $0\n")
                  \o Chars("P/E Ratio: N/A\nPrevious Close: $0.00\n")
                  \o Chars("Day Range: $0.00 - $0.00\n")

\* C7: for a list whose first element is a profile record without
\* fullTimeEmployees, get_company_profile returns a report that renders the
\* employee count as "N/A".
EmployeesDefaultRendered ==
    (GatewayGaveRecord /\ tool = "profile" /\ "fullTimeEmployees" \notin DOMAIN FirstRecord) =>
        /\ result.ok
        /\ IsSubstring(Chars("\nEmployees: N/A\n"), result.s)

\* C8 as stated: after n tool invocations the number of GETs issued is n.
OneCallPerInvocation == calls = invocations

\* C8 amended: each tool invocation invokes the gateway once; with the
\* credential set each gateway invocation issues exactly one GET (none retried,
\* none saved), and with it unset none is issued.
OneCallPerInvocationWithKey ==
    /\ gateway_calls = invocations
    /\ ~KeyUnset => calls = invocations
    /\ KeyUnset => calls = 0

OneCallWitness ==
    /\ ~KeyUnset
    /\ calls = 2
    /\ invocations = 2
    /\ response.kind = "Timeout"

\* the text between "Description:\n" and "\n\nStock Info:\n" in a report
DescriptionSection(report) ==
    LET head == Chars("Description:\n")
        from == Min(Occurrences(head, report)) + Len(head)
        to == Max(Occurrences(Chars("\n\nStock Info:\n"), report)) - 1
    IN  SubSeq(report, from, to)

RecordDescription ==
    IF "description" \in DOMAIN FirstRecord THEN FirstRecord["description"].s
    ELSE Chars("No description available")

IsProfileReport ==
    GatewayGaveRecord /\ tool = "profile" /\ result.ok

\* C9: in every report of get_company_profile the description section is the
\* first min(500, length) characters of the description (or of the default
\* text) followed by "...".
DescriptionTruncated ==
    IsProfileReport =>
        LET d == RecordDescription
        IN  DescriptionSection(result.s) =
                SubSeq(d, 1, IF Len(d) < 500 THEN Len(d) ELSE 500) \o Chars("...")

DescriptionWitness ==
    /\ IsProfileReport
    /\ Len(RecordDescription) = 600
    /\ Len(DescriptionSection(result.s)) = 503

\* C10: the symbol the tools put in the endpoint is a fixed point of the
\* normalization, and an input that differs from the caller's only in letter
\* case or surrounding whitespace normalizes to the same symbol.
NormalizeIdempotent ==
    Invoked =>
        /\ Normalize(symbol) = symbol
        /\ Normalize(PyUpper(symbol_in)) = symbol
        /\ Normalize(<<" ">> \o symbol_in \o <<"\t">>) = symbol
        /\ endpoint \in {Chars("quote/") \o symbol, Chars("profile/") \o symbol}

NormalizeWitness ==
    /\ Invoked
    /\ symbol_in = <<" ", "a", "\t">>
    /\ symbol = <<"A">>
    /\ endpoint = Chars("profile/A")

=============================================================================
